---- MODULE Spec2Model ----
(***************************************************************************)
(* Account REST API service (service/routes.py).                           *)
(*                                                                         *)
(* The state is the relational store behind the Account entity together    *)
(* with the last request handled, its response and the persistence         *)
(* operations it performed.  One action per route handler; each handler is *)
(* a pure operator from (store, request) to (store, response, operations). *)
(*                                                                         *)
(* The Account entity, the persistence adapter and the error mapper        *)
(* (service/models.py, service/common/error_handlers.py) are modelled from *)
(* sections 3, 4.1, 4.2, 4.4 and 7 of the specification.                   *)
(***************************************************************************)
EXTENDS Integers, Sequences, FiniteSets, TLC

VARIABLES db, req, resp, ops, created, deleted, assigned, prevCreated

vars == <<db, req, resp, ops, created, deleted, assigned, prevCreated>>

(* ------------------------------ bounds -------------------------------- *)

\* Accounts created in one run (ids 1..MaxCreates are handed out).
MaxCreates == 2

(* --------------------------- HTTP status codes ------------------------ *)

HTTP_200_OK == 200
HTTP_201_CREATED == 201
HTTP_204_NO_CONTENT == 204
HTTP_400_BAD_REQUEST == 400
HTTP_404_NOT_FOUND == 404
HTTP_415_UNSUPPORTED_MEDIA_TYPE == 415

(* ------------------------------ values -------------------------------- *)

\* Python's None / JSON null, and the absent Content-Type header.
None == "None"

JSON == "application/json"

ContentTypes == {None, JSON, "text/html"}

Required == {"name", "email", "address"}

Fields == Required \cup {"phone_number", "date_joined"}

\* Field values of two sample accounts.
Samples ==
    [A |-> [name |-> "Ana", email |-> "a@x.com", address |-> "1 Main St",
            phone_number |-> "555-1111", date_joined |-> "2024-01-01"],
     B |-> [name |-> "New", email |-> "new@x.com", address |-> "2 Main St",
            phone_number |-> "555-2222", date_joined |-> "2024-02-02"]]

\* A JSON object holding the fields D of sample s.
Payload(D, s) == [is_dict |-> TRUE, data |-> [f \in D |-> Samples[s][f]]]

\* A body that is not a JSON object (a JSON string or list, or no body).
NotAMapping == [is_dict |-> FALSE, data |-> [f \in {} |-> None]]

\* Request bodies: each sample in full, the first sample with one field left
\* out (each field in turn), and a body that is not an object.
Bodies ==
    {Payload(Fields, s) : s \in DOMAIN Samples}
        \cup {Payload(Fields \ {f}, "A") : f \in Fields}
        \cup {NotAMapping}

\* Ids a request may name: every id the store can hand out and one more.
RequestIds == 1..(MaxCreates + 1)

(* ------------------------ dates (datetime.date) ----------------------- *)

Today == <<2026, 10, 30>>

fromisoformat(s) ==
    CASE s = "2024-01-01" -> <<2024, 1, 1>>
      [] s = "2024-02-02" -> <<2024, 2, 2>>

isoformat(d) ==
    CASE d = <<2024, 1, 1>> -> "2024-01-01"
      [] d = <<2024, 2, 2>> -> "2024-02-02"
      [] d = Today -> "2026-10-30"

(* --------------------------- Account entity --------------------------- *)

\* dict.get(key): the value, or None when the key is absent.
Get(data, f) == IF f \in DOMAIN data THEN data[f] ELSE None

\* A fresh Account(): no field set.
Account ==
    [id |-> 0, name |-> None, email |-> None, address |-> None,
     phone_number |-> None, date_joined |-> Today]

\* deserialize(payload): the populated entity, or a ValidationError when the
\* payload is not a mapping or a required field is missing.
deserialize(account, body) ==
    IF ~body.is_dict \/ Required \ DOMAIN body.data # {}
    THEN [ok |-> FALSE, account |-> account]
    ELSE [ok |-> TRUE,
          account |->
              [account EXCEPT
                  !.name = body.data["name"],
                  !.email = body.data["email"],
                  !.address = body.data["address"],
                  !.phone_number = Get(body.data, "phone_number"),
                  !.date_joined =
                      IF "date_joined" \in DOMAIN body.data
                      THEN fromisoformat(body.data["date_joined"])
                      ELSE Today]]

\* serialize(): every field, date_joined as an ISO date string.
serialize(account) ==
    [id |-> account.id, name |-> account.name, email |-> account.email,
     address |-> account.address, phone_number |-> account.phone_number,
     date_joined |-> isoformat(account.date_joined)]

(* ------------------------- persistence adapter ------------------------ *)

\* The store: rows keyed by id, and the last value of the id sequence.
EmptyDb == [rows |-> [i \in {} |-> Account], seq |-> 0]

\* find(id): the account in a sequence of length one, or the empty sequence.
Account_find(d, id) == IF id \in DOMAIN d.rows THEN <<d.rows[id]>> ELSE <<>>

\* all(): every stored account, by id.
Account_all(d) ==
    LET ids == DOMAIN d.rows
        n == Cardinality(ids)
        order == CHOOSE s \in [1..n -> ids] :
                     \A i, j \in 1..n : i < j => s[i] < s[j]
    IN [i \in 1..n |-> d.rows[order[i]]]

\* Mutant of create(): the id is one more than the largest stored id, so the
\* id of a deleted account is handed out again.
Account_create_max_id(d, account) ==
    LET id == IF DOMAIN d.rows = {} THEN 1
              ELSE (CHOOSE m \in DOMAIN d.rows : \A i \in DOMAIN d.rows : i <= m) + 1
    IN [rows |-> [i \in DOMAIN d.rows \cup {id} |->
                      IF i = id THEN [account EXCEPT !.id = id] ELSE d.rows[i]],
        seq |-> id]

\* create(): inserts the row under the next value of the id sequence.
Account_create(d, account) ==
    LET id == d.seq + 1
    IN [rows |-> [i \in DOMAIN d.rows \cup {id} |->
                      IF i = id THEN [account EXCEPT !.id = id] ELSE d.rows[i]],
        seq |-> id]

\* update(): overwrites the row of the entity's id.
Account_update(d, account) ==
    [d EXCEPT !.rows = [i \in DOMAIN d.rows |->
                            IF i = account.id THEN account ELSE d.rows[i]]]

\* delete(): removes the row of the entity's id.
Account_delete(d, account) ==
    [d EXCEPT !.rows = [i \in DOMAIN d.rows \ {account.id} |-> d.rows[i]]]

(* ------------------------- response and errors ------------------------ *)

\* make_response(jsonify(body), status, {"Location": location}).
make_response(body, kind, status, location) ==
    [status |-> status, kind |-> kind, body |-> body, location |-> location]

\* The JSON error body the error handlers render for an aborted request.
error_response(status, error, message) ==
    make_response([status |-> status, error |-> error, message |-> message],
                  "object", status, None)

\* DataValidationError raised by deserialize is answered 400.
bad_request ==
    error_response(HTTP_400_BAD_REQUEST, "Bad Request", "Invalid Account")

\* abort(status, description).
abort(status, description) ==
    error_response(status, "Unsupported media type", description)

\* What a handler leaves behind: the store, the response, and the
\* persistence operations it performed, in order.
Result(d, r, o) == [db |-> d, resp |-> r, ops |-> o]

(* ------------------------------ utilities ----------------------------- *)

\* Python truth value of an optional string.
Truthy(s) == s # None /\ s # ""

\* f"Content-Type must be {media_type}": the media type appended to the text.
ContentTypeMustBe(media_type) == "Content-Type must be " \o media_type

\* Mutant of check_content_type: a request without a Content-Type header
\* passes the check.
check_content_type_lenient(content_type, media_type) ==
    IF ~Truthy(content_type) \/ content_type = media_type
    THEN <<>>
    ELSE <<abort(HTTP_415_UNSUPPORTED_MEDIA_TYPE, ContentTypeMustBe(media_type))>>

\* check_content_type(media_type): the empty sequence when it returns, the
\* aborting response when it aborts.
check_content_type(content_type, media_type) ==
    IF Truthy(content_type) /\ content_type = media_type
    THEN <<>>
    ELSE <<abort(HTTP_415_UNSUPPORTED_MEDIA_TYPE, ContentTypeMustBe(media_type))>>

(* ------------------------------ handlers ------------------------------ *)

\* GET /health
health(d) ==
    Result(d, make_response([status |-> "OK"], "object", HTTP_200_OK, None), <<>>)

\* GET /
index(d) ==
    Result(d,
           make_response([name |-> "Account REST API Service", version |-> "1.0"],
                         "object", HTTP_200_OK, None),
           <<>>)

\* Mutant of create_accounts: the account is inserted although deserialize
\* failed.
create_accounts_unvalidated(d, content_type, body) ==
    LET chk == check_content_type(content_type, JSON)
        des == deserialize(Account, body)
        d2 == Account_create(d, des.account)
        account == d2.rows[d2.seq]
    IN IF chk # <<>> THEN Result(d, chk[1], <<>>)
       ELSE Result(d2,
                   make_response(serialize(account), "object",
                                 HTTP_201_CREATED, "/"),
                   <<"insert">>)

\* POST /accounts
create_accounts(d, content_type, body) ==
    LET chk == check_content_type(content_type, JSON)
        des == deserialize(Account, body)
        d2 == Account_create(d, des.account)
        account == d2.rows[d2.seq]
        location_url == "/"
    IN IF chk # <<>> THEN Result(d, chk[1], <<>>)
       ELSE IF ~des.ok THEN Result(d, bad_request, <<>>)
       ELSE Result(d2,
                   make_response(serialize(account), "object",
                                 HTTP_201_CREATED, location_url),
                   <<"insert">>)

\* Mutant of list_all_accounts: the first account is left out of the list.
list_all_accounts_truncated(d) ==
    LET accounts == Account_all(d)
        accounts_list == [i \in 1..(Len(accounts) - 1) |-> serialize(accounts[i + 1])]
    IN Result(d, make_response(accounts_list, "array", HTTP_200_OK, None), <<"all">>)

\* GET /accounts
list_all_accounts(d) ==
    LET accounts == Account_all(d)
        accounts_list == [i \in 1..Len(accounts) |-> serialize(accounts[i])]
    IN IF Len(accounts) = 0
       THEN Result(d, make_response(<<>>, "array", HTTP_200_OK, None), <<"all">>)
       ELSE Result(d, make_response(accounts_list, "array", HTTP_200_OK, None),
                   <<"all">>)

\* Mutant of read_account: the lookup never finds the account.
read_account_unrouted(d, id) ==
    Result(d,
           make_response([error |-> "Account wasnt found"], "object",
                         HTTP_404_NOT_FOUND, None),
           <<"find">>)

\* GET /accounts/<id>
read_account(d, id) ==
    LET account == Account_find(d, id)
    IN IF account = <<>>
       THEN Result(d,
                   make_response([error |-> "Account wasnt found"], "object",
                                 HTTP_404_NOT_FOUND, None),
                   <<"find">>)
       ELSE Result(d,
                   make_response(serialize(account[1]), "object",
                                 HTTP_200_OK, None),
                   <<"find">>)

\* Mutant of update_account: an unknown id creates the account (an upsert).
update_account_upsert(d, id, content_type, body) ==
    LET account == Account_find(d, id)
        chk == check_content_type(content_type, JSON)
        des == deserialize(IF account = <<>> THEN Account ELSE account[1], body)
        d2 == IF account = <<>> THEN Account_create(d, des.account)
              ELSE Account_update(d, des.account)
    IN IF chk # <<>> THEN Result(d, chk[1], <<"find">>)
       ELSE IF ~des.ok THEN Result(d, bad_request, <<"find">>)
       ELSE Result(d2,
                   make_response(serialize(des.account), "object",
                                 HTTP_200_OK, None),
                   <<"find", "update">>)

\* Mutant of update_account: the Content-Type is checked before the lookup.
update_account_media_first(d, id, content_type, body) ==
    LET account == Account_find(d, id)
        chk == check_content_type(content_type, JSON)
        des == deserialize(account[1], body)
        d2 == Account_update(d, des.account)
    IN IF chk # <<>> THEN Result(d, chk[1], <<>>)
       ELSE IF account = <<>>
       THEN Result(d,
                   make_response([error |-> "Account not found"], "object",
                                 HTTP_404_NOT_FOUND, None),
                   <<"find">>)
       ELSE IF ~des.ok THEN Result(d, bad_request, <<"find">>)
       ELSE Result(d2,
                   make_response(serialize(des.account), "object",
                                 HTTP_200_OK, None),
                   <<"find", "update">>)

\* Mutant of update_account: the changed entity is answered but never saved.
update_account_unsaved(d, id, content_type, body) ==
    LET account == Account_find(d, id)
        chk == check_content_type(content_type, JSON)
        des == deserialize(account[1], body)
    IN IF account = <<>>
       THEN Result(d,
                   make_response([error |-> "Account not found"], "object",
                                 HTTP_404_NOT_FOUND, None),
                   <<"find">>)
       ELSE IF chk # <<>> THEN Result(d, chk[1], <<"find">>)
       ELSE IF ~des.ok THEN Result(d, bad_request, <<"find">>)
       ELSE Result(d,
                   make_response(serialize(des.account), "object",
                                 HTTP_200_OK, None),
                   <<"find">>)

\* PUT /accounts/<id>
update_account(d, id, content_type, body) ==
    LET account == Account_find(d, id)
        chk == check_content_type(content_type, JSON)
        des == deserialize(account[1], body)
        d2 == Account_update(d, des.account)
    IN IF account = <<>>
       THEN Result(d,
                   make_response([error |-> "Account not found"], "object",
                                 HTTP_404_NOT_FOUND, None),
                   <<"find">>)
       ELSE IF chk # <<>> THEN Result(d, chk[1], <<"find">>)
       ELSE IF ~des.ok THEN Result(d, bad_request, <<"find">>)
       ELSE Result(d2,
                   make_response(serialize(des.account), "object",
                                 HTTP_200_OK, None),
                   <<"find", "update">>)

\* Mutant of delete_account: an unknown id is answered 404.
delete_account_strict(d, id) ==
    LET account == Account_find(d, id)
    IN IF account # <<>>
       THEN Result(Account_delete(d, account[1]),
                   make_response("", "empty", HTTP_204_NO_CONTENT, None),
                   <<"find", "delete">>)
       ELSE Result(d,
                   make_response([error |-> "Account not found"], "object",
                                 HTTP_404_NOT_FOUND, None),
                   <<"find">>)

\* DELETE /accounts/<id>
delete_account(d, id) ==
    LET account == Account_find(d, id)
        empty == make_response("", "empty", HTTP_204_NO_CONTENT, None)
    IN IF account # <<>>
       THEN Result(Account_delete(d, account[1]), empty, <<"find", "delete">>)
       ELSE Result(d, empty, <<"find">>)

(* --------------------------- the state machine ------------------------ *)

Request(op, id, content_type, body) ==
    [op |-> op, id |-> id, ct |-> content_type, body |-> body]

NoRequest == Request("none", 0, None, NotAMapping)

NoResponse == make_response("", "empty", 0, None)

Answered201(request, response) ==
    request.op = "POST" /\ response.status = HTTP_201_CREATED

Init ==
    /\ db = EmptyDb
    /\ req = NoRequest
    /\ resp = NoResponse
    /\ ops = <<>>
    /\ created = 0
    /\ deleted = 0
    /\ assigned = {}
    /\ prevCreated = FALSE

\* One request handled: the handler's result becomes the state; the history
\* variables count the accounts created and deleted and keep the ids given.
Handle(request, result) ==
    /\ db' = result.db
    /\ req' = request
    /\ resp' = result.resp
    /\ ops' = result.ops
    /\ created' = created + IF Answered201(request, result.resp) THEN 1 ELSE 0
    /\ deleted' = deleted + IF request.op = "DELETE" /\ request.id \in DOMAIN db.rows
                            THEN 1 ELSE 0
    /\ assigned' = assigned \cup IF Answered201(request, result.resp)
                                 THEN {result.resp.body.id} ELSE {}
    /\ prevCreated' = Answered201(req, resp)

GetHealth == Handle(Request("HEALTH", 0, None, NotAMapping), health(db))

GetIndex == Handle(Request("INDEX", 0, None, NotAMapping), index(db))

PostAccounts(content_type, body) ==
    LET result == create_accounts(db, content_type, body)
    IN /\ result.resp.status = HTTP_201_CREATED => created < MaxCreates
       /\ Handle(Request("POST", 0, content_type, body), result)

GetAccounts == Handle(Request("LIST", 0, None, NotAMapping), list_all_accounts(db))

GetAccount(id) == Handle(Request("GET", id, None, NotAMapping), read_account(db, id))

PutAccount(id, content_type, body) ==
    Handle(Request("PUT", id, content_type, body),
           update_account(db, id, content_type, body))

DeleteAccount(id) ==
    Handle(Request("DELETE", id, None, NotAMapping), delete_account(db, id))

Next ==
    \/ GetHealth
    \/ GetIndex
    \/ \E ct \in ContentTypes, body \in Bodies : PostAccounts(ct, body)
    \/ GetAccounts
    \/ \E id \in RequestIds : GetAccount(id)
    \/ \E id \in RequestIds, ct \in ContentTypes, body \in Bodies :
           PutAccount(id, ct, body)
    \/ \E id \in RequestIds : DeleteAccount(id)

Spec == Init /\ [][Next]_vars

(* ------------------------------ claims -------------------------------- *)

\* C1: for every id that has no stored account, GET /accounts/{id} and
\* PUT /accounts/{id} both answer 404 with a JSON object whose "message"
\* field equals "Account wasnt found".
C1_NotFoundMessage ==
    (req.op \in {"GET", "PUT"} /\ req.id \notin DOMAIN db.rows)
        => /\ resp.status = HTTP_404_NOT_FOUND
           /\ resp.kind = "object"
           /\ "message" \in DOMAIN resp.body
           /\ resp.body["message"] = "Account wasnt found"

\* C2: a PUT /accounts/{id} for an id that has no stored account returns 404
\* and leaves the set of stored accounts as it was, whatever the request body
\* and Content-Type are.
C2_UpdateUnknownCreatesNoRow ==
    [][(req'.op = "PUT" /\ req'.id \notin DOMAIN db.rows)
           => (resp'.status = HTTP_404_NOT_FOUND /\ db' = db)]_vars

\* C2 witness: a PUT with a complete body and no JSON Content-Type on an
\* unknown id was answered 404 while another account is stored.
C2_Witness ==
    /\ req.op = "PUT"
    /\ req.id \notin DOMAIN db.rows
    /\ req.ct # JSON
    /\ req.body = Payload(Fields, "A")
    /\ resp.status = HTTP_404_NOT_FOUND
    /\ DOMAIN db.rows # {}

\* C3: a POST /accounts whose Content-Type is not exactly application/json
\* (a missing Content-Type included) returns 415 for every body, valid or
\* not, and stores no account.
C3_CreateWrongMediaType ==
    [][(req'.op = "POST" /\ req'.ct # JSON)
           => (resp'.status = HTTP_415_UNSUPPORTED_MEDIA_TYPE /\ db' = db)]_vars

\* C3 witness: a POST with a valid body and no Content-Type was answered 415.
C3_Witness ==
    /\ req.op = "POST"
    /\ req.ct = None
    /\ req.body = Payload(Fields, "A")
    /\ resp.status = HTTP_415_UNSUPPORTED_MEDIA_TYPE

\* C4: a POST /accounts with Content-Type application/json whose body lacks
\* any of name, email or address returns 400 and leaves the set of stored
\* accounts unchanged.
C4_CreateMissingField ==
    [][(/\ req'.op = "POST"
        /\ req'.ct = JSON
        /\ req'.body.is_dict
        /\ Required \ DOMAIN req'.body.data # {})
           => (resp'.status = HTTP_400_BAD_REQUEST /\ db' = db)]_vars

\* C4 witness: a JSON POST without an email was answered 400 while an
\* account is stored.
C4_Witness ==
    /\ req.op = "POST"
    /\ req.ct = JSON
    /\ req.body = Payload(Fields \ {"email"}, "A")
    /\ resp.status = HTTP_400_BAD_REQUEST
    /\ DOMAIN db.rows # {}

\* C5: after any sequence of requests from an empty store, GET /accounts
\* returns 200 with a JSON array whose length is the number of accounts
\* created (POSTs answered 201) minus the number deleted (DELETEs of a stored
\* account); the array is empty, never null, when nothing is stored.
C5_ListLength ==
    req.op = "LIST"
        => /\ resp.status = HTTP_200_OK
           /\ resp.kind = "array"
           /\ Len(resp.body) = created - deleted
           /\ (DOMAIN db.rows = {} => resp.body = <<>>)

\* C5 witness: a list of one account after two creations and one deletion.
C5_Witness ==
    /\ req.op = "LIST"
    /\ created = 2
    /\ deleted = 1
    /\ resp.kind = "array"
    /\ Len(resp.body) = 1

\* C6: DELETE /accounts/{id} returns 204 with an empty body whether or not
\* the id is stored and leaves no account of that id; a DELETE of an id that
\* is not stored (so every repeated DELETE) leaves the store as it was.
C6_DeleteIdempotent ==
    [][req'.op = "DELETE"
           => /\ resp'.status = HTTP_204_NO_CONTENT
              /\ resp'.kind = "empty"
              /\ resp'.body = ""
              /\ req'.id \notin DOMAIN db'.rows
              /\ (req'.id \notin DOMAIN db.rows => db' = db)]_vars

\* C6 witness: a DELETE of an id that was assigned and deleted before.
C6_Witness ==
    /\ req.op = "DELETE"
    /\ req.id \in assigned
    /\ ops = <<"find">>
    /\ resp.status = HTTP_204_NO_CONTENT

\* C7: no two stored accounts share an id, and the id assigned by a
\* successful POST /accounts differs from every id assigned by an earlier
\* POST, those of deleted accounts included.
C7_IdsUniqueNeverReused ==
    [][/\ \A i, j \in DOMAIN db'.rows :
              db'.rows[i].id = db'.rows[j].id => i = j
       /\ \A i \in DOMAIN db'.rows : db'.rows[i].id = i
       /\ Answered201(req', resp') => resp'.body.id \notin assigned]_vars

\* C7 witness: an account created after the deletion of an earlier one.
C7_Witness ==
    /\ Answered201(req, resp)
    /\ deleted > 0
    /\ resp.body.id \in DOMAIN db.rows
    /\ assigned \ DOMAIN db.rows # {}

\* C8: a POST /accounts with a valid payload P answered 201 with id i,
\* followed immediately by GET /accounts/i, yields 200 and an account whose
\* id is i and whose name, email, address and phone_number are those of P
\* (null for a phone_number P does not give).
C8_CreateThenRead ==
    [][(Answered201(req, resp) /\ req'.op = "GET" /\ req'.id = resp.body.id)
           => /\ resp'.status = HTTP_200_OK
              /\ resp'.kind = "object"
              /\ resp'.body.id = req'.id
              /\ \A f \in Required \cup {"phone_number"} :
                     resp'.body[f] = Get(req.body.data, f)]_vars

\* C8 witness: the GET of the id just created was answered 200.
C8_Witness ==
    /\ prevCreated
    /\ req.op = "GET"
    /\ req.id = db.seq
    /\ resp.status = HTTP_200_OK

\* C9 as stated: for POST /accounts and PUT /accounts/{id}, a Content-Type
\* other than application/json ends the request in 415 with no persistence
\* operation performed.
C9_MediaTypeBeforePersistence ==
    (req.op \in {"POST", "PUT"} /\ req.ct # JSON)
        => (resp.status = HTTP_415_UNSUPPORTED_MEDIA_TYPE /\ ops = <<>>)

\* C9 amended: a POST /accounts without a JSON Content-Type ends in 415 with
\* no persistence operation performed; a PUT /accounts/{id} without one
\* performs the lookup by id and nothing else, and ends in 404 when the id is
\* unknown and in 415 when it is stored.
C9_MediaTypeAfterLookup ==
    /\ (req.op = "POST" /\ req.ct # JSON)
           => (resp.status = HTTP_415_UNSUPPORTED_MEDIA_TYPE /\ ops = <<>>)
    /\ (req.op = "PUT" /\ req.ct # JSON)
           => /\ ops = <<"find">>
              /\ resp.status = IF req.id \in DOMAIN db.rows
                               THEN HTTP_415_UNSUPPORTED_MEDIA_TYPE
                               ELSE HTTP_404_NOT_FOUND

\* C9 witness: a PUT without a JSON Content-Type on a stored id was answered
\* 415 after the lookup.
C9_Witness ==
    /\ req.op = "PUT"
    /\ req.ct # JSON
    /\ req.id \in DOMAIN db.rows
    /\ resp.status = HTTP_415_UNSUPPORTED_MEDIA_TYPE
    /\ ops = <<"find">>

\* C10: a PUT /accounts/{id} with Content-Type application/json and a valid
\* body on a stored id returns 200 with the updated account; afterwards the
\* stored account of that id has the body's name, email, address and
\* phone_number and the same id, and every other stored account and the
\* number of stored accounts are unchanged.
C10_UpdateInPlace ==
    [][(/\ req'.op = "PUT"
        /\ req'.ct = JSON
        /\ req'.body.is_dict
        /\ Required \subseteq DOMAIN req'.body.data
        /\ req'.id \in DOMAIN db.rows)
           => /\ resp'.status = HTTP_200_OK
              /\ resp'.kind = "object"
              /\ DOMAIN db'.rows = DOMAIN db.rows
              /\ db'.rows[req'.id].id = req'.id
              /\ resp'.body.id = req'.id
              /\ \A f \in Required \cup {"phone_number"} :
                     /\ db'.rows[req'.id][f] = Get(req'.body.data, f)
                     /\ resp'.body[f] = Get(req'.body.data, f)
              /\ \A j \in DOMAIN db.rows \ {req'.id} :
                     db'.rows[j] = db.rows[j]]_vars

\* C10 witness: an update answered 200 changed one of two stored accounts.
C10_Witness ==
    /\ req.op = "PUT"
    /\ resp.status = HTTP_200_OK
    /\ req.body = Payload(Fields \ {"phone_number"}, "A")
    /\ db.rows[req.id].phone_number = None
    /\ \E j \in DOMAIN db.rows : j # req.id /\ db.rows[j].name = "New"

====
